---- MODULE Spec2Model ----
(***************************************************************************)
(* Movie review web application (src/app.py): two tables (users, reviews), *)
(* a signed session cookie per browser, and the request handlers of the    *)
(* seven routes.  Every handler runs against the shared database; the      *)
(* register handler reads (line 105) and later commits (line 116), so     *)
(* under concurrent requests it is two steps (SpecRace).                   *)
(* registered and posted are history variables: the (username, password)   *)
(* pairs whose registration succeeded and the reviews whose POST           *)
(* succeeded, recorded from the requests' inputs.                          *)
(***************************************************************************)
EXTENDS Integers, Sequences, FiniteSets, TLC

VARIABLES users, reviews, session, pending, last, registered, posted

vars == <<users, reviews, session, pending, last, registered, posted>>

-----------------------------------------------------------------------------
(* Bounds and input domains *)

MaxReviews == 2

Clients == {"c1", "c2"}

\* a form field that is not in the request body
Absent == "<absent>"

Usernames == {"alice", "bob", ""}
Passwords == {"pw1", "pw2", ""}
Salts == {"s1"}
Titles == {"Dune", "Heat"}
Texts == {"Great", "Bad"}
Reviewers == {"alice", "bob"}

FormUsernames == Usernames \cup {Absent}
FormPasswords == Passwords \cup {Absent}
FormTexts == Texts \cup {Absent}

\* session cookie without a user id
Anonymous == 0

\* no register request in flight
NoReq == [username |-> Absent, password |-> Absent]

-----------------------------------------------------------------------------
(* Password hashing (flask_bcrypt) *)

\* the bcrypt digest of a password under a salt: one-way, a function of both
Digest(salt, password) == <<"bcrypt", salt, password>>

GeneratePasswordHash_Unsalted(password, salt) ==
    [salt |-> salt, digest |-> Digest("", password)]

\* bcrypt.generate_password_hash: the stored string carries salt and digest
GeneratePasswordHash(password, salt) ==
    [salt |-> salt, digest |-> Digest(salt, password)]

CheckPasswordHash_AlwaysTrue(pw_hash, password) == TRUE

\* bcrypt.check_password_hash: re-hash the candidate under the stored salt
CheckPasswordHash(pw_hash, password) ==
    Digest(pw_hash.salt, password) = pw_hash.digest

-----------------------------------------------------------------------------
(* Persistence: users and reviews tables *)

\* Query.first(): an optional row, as a sequence of length 0 or 1
First(rows) == IF rows = <<>> THEN <<>> ELSE <<rows[1]>>

FindUserByUsername_NeverFound(us, username) == <<>>

\* User.query.filter_by(username=username).first()
FindUserByUsername(us, username) ==
    First(SelectSeq(us, LAMBDA r : r.username = username))

\* unique=True on users.username: the insert is refused when the name is taken
UniqueViolation(us, username) ==
    \E i \in 1..Len(us) : us[i].username = username

\* db.session.add(User(...)); db.session.commit(), id auto-assigned
InsertUser(us, username, hashed_pw) ==
    Append(us, [id |-> Len(us) + 1, username |-> username, password |-> hashed_pw])

\* load_user: User.query.get(int(user_id))
LoadUser(us, user_id) ==
    First(SelectSeq(us, LAMBDA r : r.id = user_id))

InsertReview_FirstUser(rs, title, review_text, user_id) ==
    Append(rs, [id |-> Len(rs) + 1, movie_title |-> title,
                review_text |-> review_text, user_id |-> 1])

\* db.session.add(Review(...)); db.session.commit()
InsertReview(rs, title, review_text, user_id) ==
    Append(rs, [id |-> Len(rs) + 1, movie_title |-> title,
                review_text |-> review_text, user_id |-> user_id])

FindReviewsByTitle_All(rs, title) == rs

\* Review.query.filter_by(movie_title=title).all()
FindReviewsByTitle(rs, title) ==
    SelectSeq(rs, LAMBDA r : r.movie_title = title)

-----------------------------------------------------------------------------
(* Session handling (flask_login) *)

\* current_user: the row the session's user id loads, if any
CurrentUser(c) ==
    IF session[c] = Anonymous THEN <<>> ELSE LoadUser(users, session[c])

LoginRequired_Open(c) == TRUE

\* @login_required lets the request through when current_user.is_authenticated
LoginRequired(c) == CurrentUser(c) # <<>>

\* login_user(user): the session now carries the user's id
LoginUser(c, user) == [session EXCEPT ![c] = user.id]

LogoutUser_Keep(c) == session

\* logout_user(): the user id is removed from the session
LogoutUser(c) == [session EXCEPT ![c] = Anonymous]

-----------------------------------------------------------------------------
(* Responses *)

Redirect(route, method, to) ==
    [route |-> route, method |-> method,
     kind |-> "redirect", to |-> to, data |-> <<>>]

Render(route, method, template, data) ==
    [route |-> route, method |-> method,
     kind |-> "render", to |-> template, data |-> data]

\* an exception leaves the handler: 400 for a missing form key, 500 otherwise
Fault(route, method, error) ==
    [route |-> route, method |-> method,
     kind |-> "fault", to |-> error, data |-> <<>>]

Idle(c) == pending[c] = NoReq

-----------------------------------------------------------------------------
Init ==
    /\ users = <<>>
    /\ reviews = <<>>
    /\ session = [c \in Clients |-> Anonymous]
    /\ pending = [c \in Clients |-> NoReq]
    /\ last = Render("home", "GET", "home.html", <<>>)
    /\ registered = {}
    /\ posted = <<>>

Home(c) ==
    /\ Idle(c)
    /\ last' = Render("home", "GET", "home.html", <<>>)
    /\ UNCHANGED <<users, reviews, session, pending, registered, posted>>

RegisterGet(c) ==
    /\ Idle(c)
    /\ last' = Render("register", "GET", "register.html", <<>>)
    /\ UNCHANGED <<users, reviews, session, pending, registered, posted>>

(* POST /register, lines 110-120: hash, insert and commit, log the user in *)
CreateUser(c, username, password, salt) ==
    IF password = ""
    THEN \* generate_password_hash refuses an empty password
         /\ last' = Fault("register", "POST", "500 ValueError")
         /\ UNCHANGED <<users, session, registered>>
    ELSE IF UniqueViolation(users, username)
    THEN \* the commit raises and nothing in the handler catches it
         /\ last' = Fault("register", "POST", "500 IntegrityError")
         /\ UNCHANGED <<users, session, registered>>
    ELSE LET hashed_pw == GeneratePasswordHash(password, salt)
             table == InsertUser(users, username, hashed_pw)
             new_user == table[Len(table)]
         IN /\ users' = table
            /\ session' = LoginUser(c, new_user)
            /\ registered' = registered \cup {<<username, password>>}
            /\ last' = Redirect("register", "POST", "home")

(* POST /register, lines 100-120, with no other request in between *)
Register(c, username, password, salt) ==
    /\ Idle(c)
    /\ IF username = Absent \/ password = Absent
       THEN /\ last' = Fault("register", "POST", "400")
            /\ UNCHANGED <<users, session, registered>>
       ELSE IF FindUserByUsername(users, username) # <<>>
       THEN /\ last' = Redirect("register", "POST", "register")
            /\ UNCHANGED <<users, session, registered>>
       ELSE CreateUser(c, username, password, salt)
    /\ UNCHANGED <<reviews, pending, posted>>

(* POST /register up to the lookup of line 105; the request stays in flight *)
RegisterCheck(c, username, password) ==
    /\ Idle(c)
    /\ IF username = Absent \/ password = Absent
       THEN /\ last' = Fault("register", "POST", "400")
            /\ UNCHANGED pending
       ELSE IF FindUserByUsername(users, username) # <<>>
       THEN /\ last' = Redirect("register", "POST", "register")
            /\ UNCHANGED pending
       ELSE /\ pending' = [pending EXCEPT ![c] =
                              [username |-> username, password |-> password]]
            /\ UNCHANGED last
    /\ UNCHANGED <<users, reviews, session, registered, posted>>

(* the rest of an in-flight POST /register, lines 110-120 *)
RegisterCommit(c, salt) ==
    /\ ~Idle(c)
    /\ pending' = [pending EXCEPT ![c] = NoReq]
    /\ CreateUser(c, pending[c].username, pending[c].password, salt)
    /\ UNCHANGED <<reviews, posted>>

LoginGet(c) ==
    /\ Idle(c)
    /\ last' = Render("login", "GET", "login.html", <<>>)
    /\ UNCHANGED <<users, reviews, session, pending, registered, posted>>

(* POST /login, lines 131-142 *)
LoginPost(c, username, password) ==
    /\ Idle(c)
    /\ IF username = Absent \/ password = Absent
       THEN /\ last' = Fault("login", "POST", "400")
            /\ UNCHANGED session
       ELSE LET user == FindUserByUsername(users, username)
            IN IF user # <<>> /\ CheckPasswordHash(user[1].password, password)
               THEN /\ session' = LoginUser(c, user[1])
                    /\ last' = Redirect("login", "POST", "home")
               ELSE /\ last' = Redirect("login", "POST", "login")
                    /\ UNCHANGED session
    /\ UNCHANGED <<users, reviews, pending, registered, posted>>

(* GET /logout, lines 146-153 *)
Logout(c) ==
    /\ Idle(c)
    /\ IF ~LoginRequired(c)
       THEN \* login_manager.unauthorized(): login_view is 'login'
            /\ last' = Redirect("logout", "GET", "login")
            /\ UNCHANGED session
       ELSE /\ session' = LogoutUser(c)
            /\ last' = Redirect("logout", "GET", "home")
    /\ UNCHANGED <<users, reviews, pending, registered, posted>>

-----------------------------------------------------------------------------
(* Metadata client: what requests.get(url) can come back with *)

OkBody == "{\"Title\":\"Dune\",\"Response\":\"True\"}"
NotFoundBody == "{\"Response\":\"False\",\"Error\":\"Movie not found!\"}"
HtmlBody == "<html>Bad Gateway</html>"

HttpResponse(status_code, text) ==
    [raised |-> FALSE, status_code |-> status_code, text |-> text]

\* requests.get raised (connection refused, DNS failure, ...): no response
TransportError == [raised |-> TRUE, status_code |-> 0, text |-> ""]

Upstream ==
    {HttpResponse(200, OkBody), HttpResponse(200, NotFoundBody),
     HttpResponse(200, HtmlBody), HttpResponse(404, HtmlBody),
     TransportError}

IsJson(text) == text \in {OkBody, NotFoundBody}

\* response.json(): the body text parsed into a dictionary
JsonLoads(text) ==
    IF text = OkBody
    THEN [Title |-> "Dune", Response |-> "True"]
    ELSE [Response |-> "False", Error |-> "Movie not found!"]

SearchGet(c) ==
    /\ Idle(c)
    /\ last' = Render("search", "GET", "search.html", <<>>)
    /\ UNCHANGED <<users, reviews, session, pending, registered, posted>>

(* POST /search, lines 162-172; movie_data None is the empty sequence *)
SearchPost(c, title, reply) ==
    /\ Idle(c)
    /\ IF reply.raised
       THEN last' = Fault("search", "POST", "500 ConnectionError")
       ELSE IF reply.status_code = 200
       THEN IF IsJson(reply.text)
            THEN last' = Render("search", "POST", "search.html",
                                <<JsonLoads(reply.text)>>)
            ELSE last' = Fault("search", "POST", "500 JSONDecodeError")
       ELSE last' = Render("search", "POST", "search.html", <<>>)
    /\ UNCHANGED <<users, reviews, session, pending, registered, posted>>

-----------------------------------------------------------------------------
(* GET /review/<title>, lines 174-176 and 193 *)
ReviewGet(c, title) ==
    /\ Idle(c)
    /\ IF ~LoginRequired(c)
       THEN last' = Redirect("review", "GET", "login")
       ELSE last' = Render("review", "GET", "review.html", <<title>>)
    /\ UNCHANGED <<users, reviews, session, pending, registered, posted>>

(* POST /review/<title>, lines 174-191 *)
ReviewPost(c, title, review_text) ==
    /\ Idle(c)
    /\ IF ~LoginRequired(c)
       THEN /\ last' = Redirect("review", "POST", "login")
            /\ UNCHANGED <<reviews, posted>>
       ELSE IF review_text = Absent
       THEN /\ last' = Fault("review", "POST", "400")
            /\ UNCHANGED <<reviews, posted>>
       ELSE /\ Len(reviews) < MaxReviews
            /\ reviews' = InsertReview(reviews, title, review_text, session[c])
            /\ posted' = Append(posted, [movie_title |-> title,
                                         review_text |-> review_text,
                                         author |-> session[c]])
            /\ last' = Redirect("review", "POST", "home")
    /\ UNCHANGED <<users, session, pending, registered>>

(* GET /reviews/<title>, lines 195-201 *)
ViewReviews(c, title) ==
    /\ Idle(c)
    /\ last' = Render("view_reviews", "GET", "reviews.html",
                      FindReviewsByTitle(reviews, title))
    /\ UNCHANGED <<users, reviews, session, pending, registered, posted>>

-----------------------------------------------------------------------------
(* Accounts and search, requests served one after the other.  The review
   handlers neither read nor write what these handlers decide on. *)
Next ==
    \/ \E c \in Clients : Home(c)
    \/ \E c \in Clients : RegisterGet(c)
    \/ \E c \in Clients, u \in FormUsernames, p \in FormPasswords, s \in Salts :
          Register(c, u, p, s)
    \/ \E c \in Clients : LoginGet(c)
    \/ \E c \in Clients, u \in FormUsernames, p \in FormPasswords :
          LoginPost(c, u, p)
    \/ \E c \in Clients : Logout(c)
    \/ \E c \in Clients : SearchGet(c)
    \/ \E c \in Clients, t \in Titles, reply \in Upstream :
          SearchPost(c, t, reply)

Spec == Init /\ [][Next]_vars

(* Reviews: the accounts are those of the reviewers *)
NextReviews ==
    \/ \E c \in Clients, u \in Reviewers, s \in Salts : Register(c, u, "pw1", s)
    \/ \E c \in Clients, u \in Reviewers : LoginPost(c, u, "pw1")
    \/ \E c \in Clients : Logout(c)
    \/ \E c \in Clients, t \in Titles : ReviewGet(c, t)
    \/ \E c \in Clients, t \in Titles, x \in FormTexts : ReviewPost(c, t, x)
    \/ \E c \in Clients, t \in Titles : ViewReviews(c, t)

SpecReviews == Init /\ [][NextReviews]_vars

(* Register requests served concurrently: other requests run between the
   lookup and the commit of a POST /register *)
NextRace ==
    \/ \E c \in Clients, u \in FormUsernames, p \in FormPasswords :
          RegisterCheck(c, u, p)
    \/ \E c \in Clients, s \in Salts : RegisterCommit(c, s)
    \/ \E c \in Clients, u \in FormUsernames, p \in FormPasswords :
          LoginPost(c, u, p)
    \/ \E c \in Clients : Logout(c)

SpecRace == Init /\ [][NextRace]_vars

-----------------------------------------------------------------------------
(* Vocabulary of the properties *)

UsernameTaken(u) == \E i \in 1..Len(users) : users[i].username = u

UserIdOf(u) == (CHOOSE i \in 1..Len(users) : users[i].username = u)

UniqueUsernames ==
    \A i, j \in 1..Len(users) :
        users[i].username = users[j].username => i = j

IsRegistered(u) == \E q \in Passwords : <<u, q>> \in registered

-----------------------------------------------------------------------------
(* C1, as stated: a POST /register whose username is that of a persisted
   user adds no row, usernames stay unique, and the response is always the
   redirect to the registration form. *)
C1_DuplicateAlwaysRedirects ==
    [][\A u \in Usernames : UsernameTaken(u) =>
         \A c \in Clients, p \in FormPasswords, s \in Salts :
            Register(c, u, p, s) =>
                /\ users' = users
                /\ UniqueUsernames'
                /\ last' = Redirect("register", "POST", "register")]_vars

(* C1, amended: such a POST adds no row and usernames stay unique; the
   response is the redirect to the registration form when the form carries
   a password field, and the 400 of the missing form key when it does not. *)
C1_DuplicateNeverInserts ==
    [][/\ UniqueUsernames'
       /\ \A u \in Usernames : UsernameTaken(u) =>
            \A c \in Clients, p \in FormPasswords, s \in Salts :
               Register(c, u, p, s) =>
                   /\ users' = users
                   /\ last' = IF p = Absent
                              THEN Fault("register", "POST", "400")
                              ELSE Redirect("register", "POST", "register")]_vars

C1_Witness ==
    /\ users # <<>>
    /\ last = Redirect("register", "POST", "register")

-----------------------------------------------------------------------------
(* C2, as stated: when a POST /register that passed the lookup commits a
   username that another request inserted meanwhile, the uniqueness
   violation is caught: no second row, and the losing request ends with the
   redirect to the registration form. *)
C2_RaceLoserRedirected ==
    [][\A c \in Clients, s \in Salts :
         (/\ ~Idle(c)
          /\ pending[c].password # ""
          /\ UsernameTaken(pending[c].username)
          /\ RegisterCommit(c, s)) =>
             /\ users' = users
             /\ last' = Redirect("register", "POST", "register")]_vars

-----------------------------------------------------------------------------
(* C3: once (username, password) is registered, a later POST /login with
   that pair logs the client in as that user and redirects home, and a
   POST /login with that username and any other password redirects to the
   login form and leaves the session as it was. *)
C3_LoginAfterRegistration ==
    [][\A u \in Usernames : IsRegistered(u) =>
         \A c \in Clients, p \in Passwords :
            LoginPost(c, u, p) =>
                IF <<u, p>> \in registered
                THEN /\ session'[c] = users[UserIdOf(u)].id
                     /\ last' = Redirect("login", "POST", "home")
                ELSE /\ session' = session
                     /\ last' = Redirect("login", "POST", "login")]_vars

C3_Witness ==
    /\ Cardinality(registered) >= 2
    /\ last = Redirect("login", "POST", "home")
    /\ \E c \in Clients : session[c] # Anonymous

-----------------------------------------------------------------------------
(* C6, as stated: an upstream failure of a POST /search, a non-200 status
   or a transport error, gives the search view with no movie, and a 200
   response gives the search view with the parsed body. *)
C6_UpstreamFailureIsNull ==
    [][\A c \in Clients, t \in Titles, reply \in Upstream :
         SearchPost(c, t, reply) =>
             /\ (reply.raised \/ reply.status_code # 200) =>
                    last' = Render("search", "POST", "search.html", <<>>)
             /\ (~reply.raised /\ reply.status_code = 200 /\ IsJson(reply.text)) =>
                    last' = Render("search", "POST", "search.html",
                                   <<JsonLoads(reply.text)>>)]_vars

-----------------------------------------------------------------------------
(* C7, as stated: a logout with no active session is not an error: like a
   logout with a session it ends with the redirect home, the session is
   absent afterwards and the tables are unchanged. *)
C7_LogoutNeverRejected ==
    [][\A c \in Clients :
         Logout(c) =>
             /\ session' = [session EXCEPT ![c] = Anonymous]
             /\ users' = users /\ reviews' = reviews
             /\ last' = Redirect("logout", "GET", "home")]_vars

(* C7, amended: a logout with an active session destroys it and redirects
   home; a logout with no active session is turned away by the auth guard
   with the redirect to the login route and changes nothing; either way the
   session is absent afterwards and the tables are unchanged, so a second
   logout leaves the state of the first. *)
C7_LogoutIdempotent ==
    [][\A c \in Clients :
         Logout(c) =>
             /\ session' = [session EXCEPT ![c] = Anonymous]
             /\ users' = users /\ reviews' = reviews
             /\ last' = IF session[c] = Anonymous
                        THEN Redirect("logout", "GET", "login")
                        ELSE Redirect("logout", "GET", "home")]_vars

C7_Witness ==
    /\ users # <<>>
    /\ \A c \in Clients : session[c] = Anonymous
    /\ last = Redirect("logout", "GET", "login")

-----------------------------------------------------------------------------
(* C9, as stated: no persisted user has the empty username. *)
C9_NoEmptyUsername ==
    \A i \in 1..Len(users) : users[i].username # ""

-----------------------------------------------------------------------------
(* C10: a POST /login with an unknown username or a wrong password leaves
   the tables and every session as they were and redirects to the login
   form. *)
C10_FailedLoginChangesNothing ==
    [][\A c \in Clients, u \in Usernames, p \in Passwords :
         (<<u, p>> \notin registered /\ LoginPost(c, u, p)) =>
             /\ UNCHANGED <<users, reviews, session>>
             /\ last' = Redirect("login", "POST", "login")]_vars

C10_Witness ==
    /\ Len(users) >= 2
    /\ \A c \in Clients : session[c] # Anonymous
    /\ last = Redirect("login", "POST", "login")

-----------------------------------------------------------------------------
(* C4: a GET or POST of /review/<title> from a client with no authenticated
   session leaves the reviews table as it was and is answered with the
   redirect to the login route. *)
C4_UnauthenticatedReviewRejected ==
    [][\A c \in Clients : session[c] = Anonymous =>
         \A t \in Titles :
            /\ ReviewGet(c, t) =>
                  /\ reviews' = reviews
                  /\ last' = Redirect("review", "GET", "login")
            /\ \A x \in FormTexts : ReviewPost(c, t, x) =>
                  /\ reviews' = reviews
                  /\ last' = Redirect("review", "POST", "login")]_vars

C4_Witness ==
    /\ reviews # <<>>
    /\ \A c \in Clients : session[c] = Anonymous
    /\ last = Redirect("review", "POST", "login")

-----------------------------------------------------------------------------
\* what a successful review POST submitted, as the rows of a listing show it
Submitted(rows) ==
    [i \in 1..Len(rows) |->
        [movie_title |-> rows[i].movie_title,
         review_text |-> rows[i].review_text,
         author |-> rows[i].user_id]]

PostedWithTitle(t) == SelectSeq(posted, LAMBDA r : r.movie_title = t)

(* C5: GET /reviews/<t> lists exactly the reviews that successful review
   POSTs inserted under the title t, none missing and none of another
   title, and nothing when there was none. *)
C5_ViewListsExactlyPosted ==
    [][\A c \in Clients, t \in Titles :
         ViewReviews(c, t) =>
             /\ last'.to = "reviews.html"
             /\ Submitted(last'.data) = PostedWithTitle(t)]_vars

C5_Witness ==
    /\ last.route = "view_reviews"
    /\ Len(last.data) >= 1
    /\ Len(last.data) < Len(reviews)

-----------------------------------------------------------------------------
OwnersOf(row) == {j \in 1..Len(users) : users[j].id = row.user_id}

EveryReviewOwned ==
    \A i \in 1..Len(reviews) :
        /\ reviews[i].user_id # Anonymous
        /\ Cardinality(OwnersOf(reviews[i])) = 1

(* C8: every review row has exactly one owner, an existing user; a review
   POST stores the user of the session that submitted it; and no request
   changes or removes a stored row. *)
C8_ReviewOwnedBySubmitter ==
    [][/\ EveryReviewOwned'
       /\ Len(reviews') >= Len(reviews)
       /\ SubSeq(reviews', 1, Len(reviews)) = reviews
       /\ \A c \in Clients, t \in Titles, x \in Texts :
            (session[c] # Anonymous /\ ReviewPost(c, t, x)) =>
                /\ Len(reviews') = Len(reviews) + 1
                /\ reviews'[Len(reviews')].user_id = session[c]
                /\ reviews'[Len(reviews')].movie_title = t
                /\ reviews'[Len(reviews')].review_text = x]_vars

C8_Witness ==
    /\ last.route = "view_reviews"
    /\ \E i \in 1..Len(last.data) :
          /\ last.data[i].movie_title = "Dune"
          /\ last.data[i].review_text = "Great"
          /\ \E j \in 1..Len(users) :
                /\ users[j].id = last.data[i].user_id
                /\ users[j].username = "alice"
    /\ \E i \in 1..Len(reviews) : \E j \in 1..Len(users) :
          /\ users[j].id = reviews[i].user_id
          /\ users[j].username = "bob"

====
